---- MODULE Spec2Model ----
(***************************************************************************)
(* kvlite: a namespaced, optionally encrypted key/value store over a       *)
(* persistent engine (boltDB) or an in-memory map (memStore), with the     *)
(* sub-store router, the padlock protocol of Open and CryptReset.          *)
(*                                                                         *)
(* A string is a sequence of one-character tokens, so that prefixes,       *)
(* concatenation and the byte order of the engine's cursor are computed    *)
(* as the code computes them.                                              *)
(***************************************************************************)
EXTENDS Integers, Sequences, FiniteSets, TLC

VARIABLES
    backend,   \* "bolt" or "mem": the implementation behind the root Store
    kv,        \* table name -> (key -> stored bytes): the file's buckets / memStore.kv
    handle,    \* who holds the store: "none", "open" (a Store), "reset" (CryptReset)
    encoder,   \* the encoder of the open handle (boltDB.encoder / memStore.encoder)
    nsecret,   \* number of master secrets generated so far on the file
    ret,       \* outcome of the last Open / CryptReset call
    hist,      \* history: (backend table, key) -> last value written and not removed since
    snap,      \* history: hist as it was when the last CryptReset began, until the next write
    dropped,   \* history: the table given to the last step if it was a Drop, and what it removed
    nops,      \* number of data operations performed so far
    nheld,     \* number of handles that hold the file's lock
    closed,    \* number of Close calls on the caller's Store since it was last used
    twin,      \* history: a memStore given the same calls as the bolt store (when twin.on)
    thr,       \* goroutine -> the call it is in: position, arguments, local variables
    mutex      \* memStore.mutex: the readers and the writer holding it, the writers waiting

\* the state of the concurrent callers
conc == <<thr, mutex>>

vars == <<backend, kv, handle, encoder, nsecret, ret, hist, snap, dropped, nops,
          nheld, closed, twin, thr, mutex>>

(***************************************************************************)
(* Bounds                                                                  *)
(***************************************************************************)
MaxOps == 4
MaxCloses == 2

(***************************************************************************)
(* Strings                                                                 *)
(***************************************************************************)
sepr == "US"
KVLite == <<"K", "V", "L", "i", "t", "e">>
ResetKey == <<"R", "e", "s", "e", "t">>
XKey == <<"X">>

\* the byte value of a character
Code(c) ==
    CASE c = sepr -> 31
      [] c = "K" -> 75
      [] c = "L" -> 76
      [] c = "R" -> 82
      [] c = "V" -> 86
      [] c = "X" -> 88
      [] c = "_" -> 95
      [] c = "a" -> 97
      [] c = "b" -> 98
      [] c = "d" -> 100
      [] c = "e" -> 101
      [] c = "h" -> 104
      [] c = "i" -> 105
      [] c = "k" -> 107
      [] c = "m" -> 109
      [] c = "r" -> 114
      [] c = "s" -> 115
      [] c = "t" -> 116
      [] c = "x" -> 120
      [] c = "y" -> 121

\* byte-wise order of two strings
RECURSIVE LexLess(_, _)
LexLess(s, t) ==
    IF t = <<>> THEN FALSE
    ELSE IF s = <<>> THEN TRUE
    ELSE IF Code(Head(s)) # Code(Head(t)) THEN Code(Head(s)) < Code(Head(t))
    ELSE LexLess(Tail(s), Tail(t))

\* the strings of S in byte order
RECURSIVE Sorted(_)
Sorted(S) ==
    IF S = {} THEN <<>>
    ELSE LET m == CHOOSE x \in S : \A y \in S \ {x} : LexLess(x, y)
         IN  <<m>> \o Sorted(S \ {m})

HasPrefix(s, p) == Len(p) <= Len(s) /\ SubSeq(s, 1, Len(p)) = p

ContainsRune(s, c) == \E i \in 1..Len(s) : s[i] = c

\* strings.Split(name, sepr)[0]
RECURSIVE FirstSegment(_)
FirstSegment(name) ==
    IF name = <<>> \/ Head(name) = sepr THEN <<>>
    ELSE <<Head(name)>> \o FirstSegment(Tail(name))

\* append each element once, in order of first occurrence
RECURSIVE Dedup(_, _)
Dedup(seq, seen) ==
    IF seq = <<>> THEN <<>>
    ELSE IF Head(seq) \in seen THEN Dedup(Tail(seq), seen)
    ELSE <<Head(seq)>> \o Dedup(Tail(seq), seen \cup {Head(seq)})

Map(seq, Op(_)) == [i \in 1..Len(seq) |-> Op(seq[i])]

ToSet(seq) == {seq[i] : i \in 1..Len(seq)}

\* the orders in which ranging over a Go map with the keys S can visit them
RECURSIVE MapOrders(_)
MapOrders(S) ==
    IF S = {} THEN {<<>>}
    ELSE UNION {{<<x>> \o r : r \in MapOrders(S \ {x})} : x \in S}

(***************************************************************************)
(* Values and the codec                                                    *)
(***************************************************************************)
\* a value is written with its Go type first
Values == {<<"string", "v1">>, <<"string", "v2">>}
BadValue == <<"chan">>      \* a value gob cannot serialize
True == <<"bool", "true">>
Nil == <<>>                 \* absent bytes
NoValue == <<"nil">>        \* the output left untouched

\* gob encoding of a value
encode(input) ==
    IF input = BadValue THEN [out |-> Nil, err |-> "gob"]
    ELSE [out |-> <<"gob", input>>, err |-> "nil"]

\* AES-CFB under one key for every encoder
encrypt_zero(e, input) == <<"aes", 0, input>>

\* AES-CFB under the key derived from the encoder e
encrypt(e, input) == <<"aes", e, input>>

decrypt(e, input) ==
    IF input[1] = "aes" /\ input[2] = e THEN input[3] ELSE <<"garbage">>

\* a decode that decrypts whatever the flag byte is
decode_always(e, input) ==
    IF input = Nil THEN [out |-> NoValue, err |-> "nil"]
    ELSE LET i == decrypt(e, input[2])
         IN  IF i[1] = "gob" THEN [out |-> i[2], err |-> "nil"]
             ELSE [out |-> NoValue, err |-> "gob"]

\* a stored record: flag byte, then the payload
decode(e, input) ==
    IF input = Nil THEN [out |-> NoValue, err |-> "nil"]
    ELSE LET i == IF input[1] = 1 THEN decrypt(e, input[2]) ELSE input[2]
         IN  IF i[1] = "gob" THEN [out |-> i[2], err |-> "nil"]
             ELSE [out |-> NoValue, err |-> "gob"]

(***************************************************************************)
(* Buckets: a function from existing table names to functions from keys    *)
(***************************************************************************)
EmptyDB == << >>
EmptyBucket == << >>

Put(f, k, v) == (k :> v) @@ f

Remove(f, k) == [x \in (DOMAIN f) \ {k} |-> f[x]]

\* bucket.Get / map lookup: Nil when table or key is absent
Lookup(db, table, key) ==
    IF table \in DOMAIN db /\ key \in DOMAIN db[table] THEN db[table][key] ELSE Nil

(***************************************************************************)
(* Bolt backend.  Every operator is one transaction on the buckets db and  *)
(* returns the buckets after it together with the values the method        *)
(* returns.                                                                *)
(***************************************************************************)

\* a listing that does not skip the system table
boltDB_buckets_all(db, limit_depth) ==
    LET names == Sorted(DOMAIN db)
    IN  IF ~limit_depth THEN names
        ELSE Dedup(Map(names, FirstSegment), {})

\* boltDB.buckets: tx.ForEach visits the buckets in byte order
boltDB_buckets(db, limit_depth) ==
    LET names == Sorted((DOMAIN db) \ {KVLite})
    IN  IF ~limit_depth THEN names
        ELSE Dedup(Map(names, FirstSegment), {})

boltDB_Keys(db, table) ==
    IF table \notin DOMAIN db THEN <<>> ELSE Sorted(DOMAIN db[table])

\* boltDB.Tables
boltDB_Tables(db) ==
    SelectSeq(boltDB_buckets(db, TRUE), LAMBDA v : ~ContainsRune(v, sepr))

\* a count over the keys of every bucket of the file
boltDB_CountKeys_all(db, table) ==
    IF table \notin DOMAIN db THEN 0 ELSE Cardinality(UNION {DOMAIN db[t] : t \in DOMAIN db})

\* bucket.Stats().KeyN: the number of keys of the bucket
boltDB_CountKeys(db, table) ==
    IF table \notin DOMAIN db THEN 0 ELSE Cardinality(DOMAIN db[table])

\* an Unset that opens the bucket with CreateBucketIfNotExists
boltDB_Unset_create(db, table, key) ==
    IF table \notin DOMAIN db THEN [kv |-> Put(db, table, EmptyBucket), err |-> "nil"]
    ELSE [kv |-> [db EXCEPT ![table] = Remove(@, key)], err |-> "nil"]

\* an Unset that reports a missing bucket
boltDB_Unset_strict(db, table, key) ==
    IF table \notin DOMAIN db THEN [kv |-> db, err |-> "ErrBucketNotFound"]
    ELSE [kv |-> [db EXCEPT ![table] = Remove(@, key)], err |-> "nil"]

boltDB_Unset(db, table, key) ==
    IF table \notin DOMAIN db THEN [kv |-> db, err |-> "nil"]
    ELSE [kv |-> [db EXCEPT ![table] = Remove(@, key)], err |-> "nil"]

\* tx.DeleteBucket in its own Update transaction
DeleteBucket(db, name) ==
    IF name \in DOMAIN db THEN [kv |-> Remove(db, name), err |-> "nil"]
    ELSE [kv |-> db, err |-> "ErrBucketNotFound"]

\* the loop of boltDB.Drop over the selected tables: err is the last result
RECURSIVE DropLoop(_, _, _)
DropLoop(db, tables, err) ==
    IF tables = <<>> THEN [kv |-> db, err |-> err]
    ELSE LET r == DeleteBucket(db, Head(tables))
         IN  DropLoop(r.kv, Tail(tables), r.err)

\* the test without the separator: every name that starts with the table's name
DropSelects_nosep(v, table) == HasPrefix(v, table) \/ v = table

\* the test that selects the tables boltDB.Drop removes
DropSelects(v, table) == HasPrefix(v, Append(table, sepr)) \/ v = table

boltDB_Drop(db, table) ==
    LET tmp == boltDB_buckets(db, FALSE)
        tables == SelectSeq(tmp, LAMBDA v : DropSelects(v, table))
    IN  IF Len(tables) = 0 THEN [kv |-> db, err |-> "nil"]
        ELSE DropLoop(db, tables, "nil")

\* output = FALSE is the call with a nil output (presence test only).
\* `return found, K.db.View(...)`: found is a result variable captured by the
\* closure; the gc toolchain runs the call before it loads found, so the
\* value returned is the one the closure assigned.
boltDB_Get(db, e, table, key, output) ==
    IF table \notin DOMAIN db THEN [found |-> FALSE, out |-> NoValue, err |-> "nil"]
    ELSE LET data == Lookup(db, table, key)
             d == decode(e, data)
         IN  IF data # Nil /\ ~output
                 THEN [found |-> TRUE, out |-> NoValue, err |-> "nil"]
                 ELSE [found |-> data # Nil, out |-> d.out, err |-> d.err]

\* a Put that keeps the value of a key the bucket already holds
boltDB_set_keep(db, e, table, key, value, encrypt_value) ==
    LET bucket == IF table \in DOMAIN db THEN db[table] ELSE EmptyBucket
        v == encode(value)
        framed == IF encrypt_value THEN <<1, encrypt(e, v.out)>> ELSE <<0, v.out>>
    IN  IF v.err # "nil" THEN [kv |-> db, err |-> v.err]
        ELSE [kv |-> Put(db, table, bucket @@ (key :> framed)), err |-> "nil"]

\* an Update that returns an error is rolled back, the bucket it created included
boltDB_set(db, e, table, key, value, encrypt_value) ==
    LET bucket == IF table \in DOMAIN db THEN db[table] ELSE EmptyBucket
        v == encode(value)
        framed == IF encrypt_value THEN <<1, encrypt(e, v.out)>> ELSE <<0, v.out>>
    IN  IF v.err # "nil" THEN [kv |-> db, err |-> v.err]
        ELSE [kv |-> Put(db, table, Put(bucket, key, framed)), err |-> "nil"]

(***************************************************************************)
(* In-memory backend.  Every operator is one critical section on K.kv.     *)
(***************************************************************************)

\* ranging over a Go map visits the keys in some order: the order is a parameter
memStore_buckets(m, limit_depth, order) ==
    IF ~limit_depth THEN order
    ELSE Dedup(Map(order, FirstSegment), {})

\* order is the order in which the range over the table's map visits its keys
memStore_Keys(m, table, order) ==
    IF table \in DOMAIN m THEN order ELSE <<>>

\* memStore.Tables: order is the order in which buckets ranges over K.kv
memStore_Tables(m, order) ==
    SelectSeq(memStore_buckets(m, TRUE, order), LAMBDA v : ~ContainsRune(v, sepr))

\* len(t)
memStore_CountKeys(m, table) ==
    IF table \in DOMAIN m THEN Cardinality(DOMAIN m[table]) ELSE 0

memStore_Drop(m, table) ==
    LET deleted == {k \in DOMAIN m : HasPrefix(k, Append(table, sepr)) \/ k = table}
    IN  [kv |-> [k \in (DOMAIN m) \ deleted |-> m[k]], err |-> "nil"]

memStore_Unset(m, table, key) ==
    IF table \in DOMAIN m THEN [kv |-> [m EXCEPT ![table] = Remove(@, key)], err |-> "nil"]
    ELSE [kv |-> m, err |-> "nil"]

memStore_Get(m, e, table, key) ==
    IF table \in DOMAIN m /\ key \in DOMAIN m[table]
        THEN LET d == decode(e, m[table][key])
             IN  [found |-> TRUE, out |-> d.out, err |-> d.err]
        ELSE [found |-> FALSE, out |-> NoValue, err |-> "nil"]

\* the table is created before the value is encoded
memStore_set(m, e, table, key, value, encrypt_value) ==
    LET m1 == IF table \in DOMAIN m THEN m ELSE Put(m, table, EmptyBucket)
        v == encode(value)
        framed == IF encrypt_value THEN <<1, encrypt(e, v.out)>> ELSE <<0, v.out>>
    IN  IF v.err # "nil" THEN [kv |-> m1, err |-> v.err]
        ELSE [kv |-> [m1 EXCEPT ![table] = Put(@, key, framed)], err |-> "nil"]

\* a Close that keeps the map
memStore_Close_keep(m) == [kv |-> m, err |-> "nil"]

memStore_Close(m) == [kv |-> EmptyDB, err |-> "nil"]

\* MemStore(): an empty map and a random encoder
MemStore == [kv |-> EmptyDB, encoder |-> 1]

(***************************************************************************)
(* The Store interface: the root Store is the backend itself, a sub-store  *)
(* is a prefix over the same backend.  A store is written as its prefix,   *)
(* the root as the empty prefix.                                           *)
(***************************************************************************)
Root == <<>>

\* a prefix without the terminating separator
K_Sub_nosep(name) == name

\* boltDB.Sub / memStore.Sub
K_Sub(name) == Append(name, sepr)

\* substore.Sub
substore_Sub(prefix, name) == prefix \o Append(name, sepr)

Sub(s, name) == IF s = Root THEN K_Sub(name) ELSE substore_Sub(s, name)

\* boltDB.Bucket / memStore.Bucket: return K.Sub(name)
K_Bucket(name) == K_Sub(name)

\* substore.Shared, the shared-namespace constructor of a sub-store
SharedPrefix == <<"_", "_", "s", "h", "a", "r", "e", "d", "_", "_">>
substore_Shared(prefix, name) == SharedPrefix \o <<sepr>> \o Append(name, sepr)

\* the shared-namespace router for name obtained from store s
Bucket(s, name) == IF s = Root THEN K_Bucket(name) ELSE substore_Shared(s, name)

\* a prefix function that hands the bare table name to the backend
apply_prefix_bare(prefix, name) == name

\* substore.apply_prefix
apply_prefix(prefix, name) == Append(prefix, sepr)

\* the table name a call on store s hands to the backend
Delegated(s, table) == IF s = Root THEN table ELSE apply_prefix(s, table)

K_set(db, e, table, key, value, encrypt_value) ==
    IF backend = "bolt" THEN boltDB_set(db, e, table, key, value, encrypt_value)
    ELSE memStore_set(db, e, table, key, value, encrypt_value)

K_Get(db, e, table, key) ==
    IF backend = "bolt" THEN boltDB_Get(db, e, table, key, TRUE)
    ELSE memStore_Get(db, e, table, key)

K_Unset(db, table, key) ==
    IF backend = "bolt" THEN boltDB_Unset(db, table, key)
    ELSE memStore_Unset(db, table, key)

K_Drop(db, table) ==
    IF backend = "bolt" THEN boltDB_Drop(db, table) ELSE memStore_Drop(db, table)

\* the lists Keys(table) can return, with its error
K_Keys(db, table) ==
    IF backend = "bolt" THEN {[keys |-> boltDB_Keys(db, table), err |-> "nil"]}
    ELSE {[keys |-> memStore_Keys(db, table, o), err |-> "nil"] :
              o \in MapOrders(IF table \in DOMAIN db THEN DOMAIN db[table] ELSE {})}

K_CountKeys(db, table) ==
    IF backend = "bolt" THEN [count |-> boltDB_CountKeys(db, table), err |-> "nil"]
    ELSE [count |-> memStore_CountKeys(db, table), err |-> "nil"]

\* the lists the backend's buckets(limit_depth) can return
K_buckets(db, limit_depth) ==
    IF backend = "bolt" THEN {boltDB_buckets(db, limit_depth)}
    ELSE {memStore_buckets(db, limit_depth, o) : o \in MapOrders(DOMAIN db)}

\* the lists the backend's Tables() can return
K_Tables(db) ==
    IF backend = "bolt" THEN {boltDB_Tables(db)}
    ELSE {memStore_Tables(db, o) : o \in MapOrders(DOMAIN db)}

TrimPrefix(t, prefix) ==
    IF HasPrefix(t, prefix) THEN SubSeq(t, Len(prefix) + 1, Len(t)) ELSE t

\* substore.Buckets over the list tmp that the backend's listing (called as
\* d.db.Buckets(false)) returned
substore_Buckets(prefix, limit_depth, tmp) ==
    LET names == Map(SelectSeq(tmp, LAMBDA t : HasPrefix(t, prefix)
                                                 /\ ContainsRune(TrimPrefix(t, prefix), sepr)),
                     LAMBDA t : TrimPrefix(t, prefix))
    IN  IF ~limit_depth THEN names
        ELSE Dedup(Map(names, FirstSegment), {})

\* substore.Tables over the list tmp that d.db.Buckets(true) returned
substore_Tables(prefix, tmp) ==
    Map(SelectSeq(tmp, LAMBDA t : HasPrefix(t, prefix)
                                    /\ ~ContainsRune(TrimPrefix(t, prefix), sepr)),
        LAMBDA t : TrimPrefix(t, prefix))

\* the lists Tables() on store s can return over the buckets db
TablesIn(db, s) ==
    IF s = Root THEN K_Tables(db)
    ELSE {substore_Tables(s, tmp) : tmp \in K_buckets(db, TRUE)}

\* the lists Tables() on store s can return in the current state
Tables(s) == TablesIn(kv, s)

\* the lists the bucket listing of store s can return in the current state
Buckets(s, limit_depth) ==
    IF s = Root THEN K_buckets(kv, limit_depth)
    ELSE {substore_Buckets(s, limit_depth, tmp) : tmp \in K_buckets(kv, FALSE)}

\* Get on store s in the current state
Get(s, table, key) == K_Get(kv, encoder, Delegated(s, table), key)

\* Get on store s in the state after the step
GetNext(s, table, key) == K_Get(kv', encoder', Delegated(s, table), key)

(***************************************************************************)
(* Inputs                                                                  *)
(***************************************************************************)
TableA == <<"a">>
TableAB == <<"a", "b">>
TableX == <<"x">>
TableY == <<"y">>
Keys == {<<"k">>, <<"m">>}
RootTables == {TableA, TableAB}
SubTables == {TableX, TableY}
StoreA == Sub(Root, TableA)
StoreAX == Sub(StoreA, TableX)
SubStores == {StoreA, StoreAX}
Stores == {Root} \cup SubStores
TablesOf(s) == IF s = Root THEN RootTables ELSE IF s = StoreA THEN SubTables ELSE {TableX}
Padlocks == {"", "A", "B"}
LifeKeys == {<<"k">>}

(***************************************************************************)
(* History variables: what the backend contract says the tables hold       *)
(***************************************************************************)
\* no Drop in the last step / no reset since the last write
NoDrop == [table |-> <<>>, removed |-> {}]
NoSnap == [taken |-> FALSE, h |-> << >>]

\* table t is `table` or lies in the namespace below it
Covers(table, t) == t = table \/ HasPrefix(t, table \o <<sepr>>)

HistSet(h, t, key, value, crypt) == Put(h, <<t, key>>, [val |-> value, crypt |-> crypt])

HistUnset(h, t, key) == [x \in (DOMAIN h) \ {<<t, key>>} |-> h[x]]

HistDrop(h, table) == [x \in {y \in DOMAIN h : ~Covers(table, y[1])} |-> h[x]]

HistReset(h) == [x \in {y \in DOMAIN h : ~h[y].crypt} |-> h[x]]

\* the twin memStore: off, or the map after the same calls
TwinOff == [on |-> FALSE, kv |-> EmptyDB]
TwinSet(w, t, key, value, crypt) ==
    IF w.on THEN [w EXCEPT !.kv = memStore_set(@, MemStore.encoder, t, key, value, crypt).kv]
    ELSE w
TwinUnset(w, t, key) == IF w.on THEN [w EXCEPT !.kv = memStore_Unset(@, t, key).kv] ELSE w
TwinDrop(w, t) == IF w.on THEN [w EXCEPT !.kv = memStore_Drop(@, t).kv] ELSE w

\* the goroutines that call the store concurrently
Threads == {1, 2}

\* what a reading method returns: found and output of Get, the count of CountKeys, the
\* names of Keys and of buckets
NoOut == [found |-> FALSE, out |-> NoValue, err |-> "nil", count |-> 0, names |-> <<>>]

\* a goroutine outside every call: op and err are those of its last call
Idle(op, err) ==
    [pc |-> "idle", op |-> op, table |-> <<>>, key |-> <<>>, value |-> NoValue,
     pending |-> <<>>, listed |-> {}, err |-> err, nlock |-> 0,
     before |-> EmptyDB, out |-> NoOut, seq |-> 0]
NoCalls == [th \in Threads |-> Idle("none", "none")]

\* a sync.RWMutex nobody holds or waits for
Unlocked == [readers |-> {}, writer |-> 0]

(***************************************************************************)
(* Data operations of an open Store                                        *)
(***************************************************************************)
Usable == handle = "open" /\ nops < MaxOps

\* Store.Set (encrypt_value = FALSE) and Store.CryptSet (TRUE) on store s
set(s, table, key, value, encrypt_value) ==
    /\ Usable
    /\ LET r == K_set(kv, encoder, Delegated(s, table), key, value, encrypt_value)
       IN  /\ kv' = r.kv
           /\ hist' = IF r.err = "nil"
                          THEN HistSet(hist, Delegated(s, table), key, value, encrypt_value)
                          ELSE hist
    /\ twin' = TwinSet(twin, Delegated(s, table), key, value, encrypt_value)
    /\ nops' = nops + 1
    /\ snap' = NoSnap
    /\ dropped' = NoDrop
    /\ closed' = 0
    /\ UNCHANGED <<backend, handle, encoder, nsecret, ret, nheld>>
    /\ UNCHANGED conc

Set(s, table, key, value) == set(s, table, key, value, FALSE)

CryptSet(s, table, key, value) == set(s, table, key, value, TRUE)

Unset(s, table, key) ==
    /\ Usable
    /\ kv' = K_Unset(kv, Delegated(s, table), key).kv
    /\ hist' = HistUnset(hist, Delegated(s, table), key)
    /\ twin' = TwinUnset(twin, Delegated(s, table), key)
    /\ nops' = nops + 1
    /\ snap' = NoSnap
    /\ dropped' = NoDrop
    /\ closed' = 0
    /\ UNCHANGED <<backend, handle, encoder, nsecret, ret, nheld>>
    /\ UNCHANGED conc

Drop(s, table) ==
    /\ Usable
    /\ kv' = K_Drop(kv, Delegated(s, table)).kv
    /\ hist' = HistDrop(hist, Delegated(s, table))
    /\ nops' = nops + 1
    /\ snap' = NoSnap
    /\ twin' = TwinDrop(twin, Delegated(s, table))
    /\ dropped' = [table |-> Delegated(s, table), removed |-> (DOMAIN kv) \ (DOMAIN kv')]
    /\ closed' = 0
    /\ UNCHANGED <<backend, handle, encoder, nsecret, ret, nheld>>
    /\ UNCHANGED conc

(***************************************************************************)
(* The focused Table: a table name bound to a Store                        *)
(***************************************************************************)
\* boltDB.Table and memStore.Table: focused{table: table, store: K}
K_Table(table) == [table |-> table, store |-> Root]

\* a Table of the sub-store bound to the name as the caller gave it
substore_Table_bare(prefix, table) == K_Table(table)

\* substore.Table: d.db.Table(d.apply_prefix(table))
substore_Table(prefix, table) == K_Table(apply_prefix(prefix, table))

\* Table(table) on store s
Table(s, table) == IF s = Root THEN K_Table(table) ELSE substore_Table(s, table)

\* focused.Get, focused.Keys, focused.CountKeys: s.store.Get(s.table, key, value), ...
focused_Get(f, key) == K_Get(kv, encoder, Delegated(f.store, f.table), key)
focused_Keys(f) == K_Keys(kv, Delegated(f.store, f.table))
focused_CountKeys(f) == K_CountKeys(kv, Delegated(f.store, f.table))

\* the record of a call through a Table of store s: its number among the calls, its
\* arguments and its error
Called(op, s, table, key, value, err) ==
    [Idle(op, err) EXCEPT !.pending = <<s, table>>, !.key = key, !.value = value,
                          !.seq = nops + 1]

\* focused.Set and focused.CryptSet on Table(table) of store s
focused_set(s, table, key, value, encrypt_value) ==
    /\ Usable
    /\ LET f == Table(s, table)
           d == Delegated(f.store, f.table)
           r == K_set(kv, encoder, d, key, value, encrypt_value)
       IN  /\ kv' = r.kv
           /\ hist' = IF r.err = "nil" THEN HistSet(hist, d, key, value, encrypt_value)
                      ELSE hist
           /\ twin' = TwinSet(twin, d, key, value, encrypt_value)
           /\ thr' = [thr EXCEPT ![1] =
                          Called(IF encrypt_value THEN "Table.CryptSet" ELSE "Table.Set",
                                 s, table, key, value, r.err)]
    /\ nops' = nops + 1
    /\ snap' = NoSnap
    /\ dropped' = NoDrop
    /\ closed' = 0
    /\ UNCHANGED <<backend, handle, encoder, nsecret, ret, nheld, mutex>>

focused_Set(s, table, key, value) == focused_set(s, table, key, value, FALSE)

focused_CryptSet(s, table, key, value) == focused_set(s, table, key, value, TRUE)

focused_Unset(s, table, key) ==
    /\ Usable
    /\ LET f == Table(s, table)
           d == Delegated(f.store, f.table)
           r == K_Unset(kv, d, key)
       IN  /\ kv' = r.kv
           /\ hist' = HistUnset(hist, d, key)
           /\ twin' = TwinUnset(twin, d, key)
           /\ thr' = [thr EXCEPT ![1] = Called("Table.Unset", s, table, key, NoValue, r.err)]
    /\ nops' = nops + 1
    /\ snap' = NoSnap
    /\ dropped' = NoDrop
    /\ closed' = 0
    /\ UNCHANGED <<backend, handle, encoder, nsecret, ret, nheld, mutex>>

focused_Drop(s, table) ==
    /\ Usable
    /\ LET f == Table(s, table)
           d == Delegated(f.store, f.table)
           r == K_Drop(kv, d)
       IN  /\ kv' = r.kv
           /\ hist' = HistDrop(hist, d)
           /\ twin' = TwinDrop(twin, d)
           /\ dropped' = [table |-> d, removed |-> (DOMAIN kv) \ (DOMAIN kv')]
           /\ thr' = [thr EXCEPT ![1] = Called("Table.Drop", s, table, <<>>, NoValue, r.err)]
    /\ nops' = nops + 1
    /\ snap' = NoSnap
    /\ closed' = 0
    /\ UNCHANGED <<backend, handle, encoder, nsecret, ret, nheld, mutex>>

(***************************************************************************)
(* The reading methods as steps of a caller                                *)
(***************************************************************************)
\* a lookup that creates the table it does not find
View_Bucket_create(db, table) ==
    IF table \in DOMAIN db THEN db ELSE Put(db, table, EmptyBucket)

\* the buckets after tx.Bucket([]byte(table)) in a View transaction of bolt, and after
\* `t, ok := K.kv[table]` on the map of the memStore: an absent table stays absent
View_Bucket(db, table) == db

\* the results Get, Keys, CountKeys, Tables and the bucket listing on store s can return
ReadResults(op, s, table, key) ==
    LET d == Delegated(s, table)
        g == K_Get(kv, encoder, d, key)
    IN  CASE op = "Get" -> {[NoOut EXCEPT !.found = g.found, !.out = g.out, !.err = g.err]}
          [] op = "Keys" -> {[NoOut EXCEPT !.names = r.keys] : r \in K_Keys(kv, d)}
          [] op = "CountKeys" -> {[NoOut EXCEPT !.count = K_CountKeys(kv, d).count]}
          [] op = "Tables" -> {[NoOut EXCEPT !.names = l] : l \in Tables(s)}
          [] op = "Buckets" -> {[NoOut EXCEPT !.names = l] : l \in Buckets(s, FALSE)}
          [] OTHER -> {[NoOut EXCEPT !.names = l] : l \in Buckets(s, TRUE)}

\* one reading call on store s: Get, Keys and CountKeys look the table up, the listings
\* range over the buckets
Read(op, s, table, key) ==
    /\ Usable
    /\ kv' = IF op \in {"Get", "Keys", "CountKeys"} THEN View_Bucket(kv, Delegated(s, table))
             ELSE kv
    /\ \E res \in ReadResults(op, s, table, key) :
           thr' = [thr EXCEPT ![1] = [Called(op, s, table, key, NoValue, res.err)
                                         EXCEPT !.out = res]]
    /\ nops' = nops + 1
    /\ dropped' = NoDrop
    /\ closed' = 0
    /\ UNCHANGED <<backend, handle, encoder, nsecret, ret, hist, snap, nheld, twin, mutex>>

\* bolt's DB.Close on the handle h of a Store: a DB that is not opened returns nil at
\* once, an opened one releases the file
boltDB_Close(h, held, is_closed) ==
    IF is_closed THEN [handle |-> h, held |-> held, err |-> "nil"]
    ELSE [handle |-> "none", held |-> held - 1, err |-> "nil"]

\* Close on any store closes the backend: bolt releases the file, memStore clears the map
Close ==
    /\ handle = "open" \/ closed > 0
    /\ closed < MaxCloses
    /\ IF backend = "bolt"
           THEN LET r == boltDB_Close(handle, nheld, closed > 0)
                IN  /\ handle' = r.handle
                    /\ nheld' = r.held
                    /\ encoder' = IF closed > 0 THEN encoder ELSE 0
                    /\ UNCHANGED <<kv, hist>>
           ELSE /\ kv' = memStore_Close(kv).kv
                /\ hist' = << >>
                /\ UNCHANGED <<handle, encoder, nheld>>
    /\ closed' = closed + 1
    /\ snap' = NoSnap
    /\ dropped' = NoDrop
    /\ UNCHANGED <<backend, nsecret, ret, nops, twin>>
    /\ UNCHANGED conc

\* a Close that clears the tables of the sub-store's own namespace only
substore_Close_own(prefix, m) ==
    [kv |-> [t \in {x \in DOMAIN m : ~HasPrefix(x, prefix)} |-> m[t]], err |-> "nil"]

\* substore.Close on the memStore: d.db.Close()
substore_Close(prefix, m) == memStore_Close(m)

\* Close called on store s, the root or a sub-store: the record of the call keeps the
\* store and the buckets it found
Close_on(s) ==
    /\ handle = "open" \/ closed > 0
    /\ closed < MaxCloses
    /\ IF backend = "bolt"
           THEN LET r == boltDB_Close(handle, nheld, closed > 0)
                IN  /\ handle' = r.handle
                    /\ nheld' = r.held
                    /\ encoder' = IF closed > 0 THEN encoder ELSE 0
                    /\ UNCHANGED <<kv, hist>>
           ELSE /\ kv' = IF s = Root THEN memStore_Close(kv).kv ELSE substore_Close(s, kv).kv
                /\ hist' = << >>
                /\ UNCHANGED <<handle, encoder, nheld>>
    /\ thr' = [thr EXCEPT ![1] = [Called("Close", s, <<>>, <<>>, NoValue, "nil")
                                     EXCEPT !.before = kv]]
    /\ closed' = closed + 1
    /\ snap' = NoSnap
    /\ dropped' = NoDrop
    /\ UNCHANGED <<backend, nsecret, ret, nops, twin, mutex>>

(***************************************************************************)
(* Key manager: the padlock protocol of Open, and CryptReset               *)
(***************************************************************************)
MaxSecrets == 2

\* the lock-state value: new(xLock) holds no secret
xLock(secret, padlock) == <<"xLock", secret, padlock>>
new_xLock == xLock(0, "")

\* unlock X with the padlock; a lock state without a secret gets the fresh one
dbunlocker(X, padlock, fresh) ==
    IF X[2] = 0 THEN [X |-> xLock(fresh, padlock), encoder |-> fresh, err |-> "nil"]
    ELSE IF X[3] = padlock THEN [X |-> X, encoder |-> X[2], err |-> "nil"]
    ELSE [X |-> X, encoder |-> 0, err |-> "ErrBadPadlock"]

\* the collection with the flag test inverted
crypted_keys_plain(db, t) ==
    SelectSeq(boltDB_Keys(db, t), LAMBDA k : Lookup(db, t, k) # Nil /\ Lookup(db, t, k)[1] = 0)

\* the keys of table t that CryptReset collects: those whose flag byte is 1
crypted_keys(db, t) ==
    SelectSeq(boltDB_Keys(db, t), LAMBDA k : Lookup(db, t, k) # Nil /\ Lookup(db, t, k)[1] = 1)

\* the tables of the loop that still hold a key to delete
PendingTables(db) ==
    SelectSeq(boltDB_buckets(db, FALSE), LAMBDA t : crypted_keys(db, t) # <<>>)

\* db.Set("KVLite", "Reset", true) on the handle open() returns (no encoder)
CryptReset_mark(db) == boltDB_set(db, 0, KVLite, ResetKey, True, FALSE).kv

\* the next db.Unset(t, k) of the loop
CryptReset_unset(db) ==
    LET t == Head(PendingTables(db))
    IN  boltDB_Unset(db, t, Head(crypted_keys(db, t))).kv

\* db.Drop("KVLite")
CryptReset_drop(db) == boltDB_Drop(db, KVLite)

RECURSIVE CryptReset_loop(_)
CryptReset_loop(db) ==
    IF PendingTables(db) = <<>> THEN db ELSE CryptReset_loop(CryptReset_unset(db))

\* a whole CryptReset on a file nobody holds
CryptReset_run(db) == CryptReset_drop(CryptReset_loop(CryptReset_mark(db)))

\* the padlock does not unlock: the handle is left open
Open_fail_noclose(db, ns, err) ==
    [kv |-> db, handle |-> "open", encoder |-> 0, nsecret |-> ns, err |-> err]

\* the padlock does not unlock: db.Close(), no Store
Open_fail(db, ns, err) ==
    [kv |-> db, handle |-> "none", encoder |-> 0, nsecret |-> ns, err |-> err]

\* the lock-state record cannot be read: `return nil, err`, the bolt DB that open()
\* returned is not closed and nothing refers to it any more
Open_unread(db, ns, err) ==
    [kv |-> db, handle |-> "leaked", encoder |-> 0, nsecret |-> ns, err |-> err]

\* gob decodes the record under "X" into an *xLock: a value of another type is an error
decode_xLock(out) == IF out[1] \in {"nil", "xLock"} THEN "nil" ELSE "gob"

\* Open on a file nobody holds: ns is the number of secrets generated so far
Open_run(db, padlock, ns) ==
    LET found == boltDB_Get(db, 0, KVLite, ResetKey, FALSE).found
        db1 == IF found THEN CryptReset_run(db).kv ELSE db
        got == boltDB_Get(db1, 0, KVLite, XKey, TRUE)
        X == IF got.out = NoValue THEN new_xLock ELSE got.out
        u == dbunlocker(X, padlock, ns + 1)
    IN  IF decode_xLock(got.out) # "nil"
            THEN Open_unread(db1, ns, "gob")
        ELSE IF u.err # "nil"
            THEN Open_fail(db1, ns, u.err)
            ELSE [kv |-> boltDB_set(db1, u.encoder, KVLite, XKey, u.X, FALSE).kv,
                  handle |-> "open", encoder |-> u.encoder,
                  nsecret |-> IF u.encoder > ns THEN ns + 1 ELSE ns, err |-> "nil"]

\* a file lock that is never found held
open_locked_never == FALSE

\* open(): bolt.Open gives up after its timeout when the file is held
open_locked == nheld > 0

Open(padlock) ==
    /\ backend = "bolt"
    /\ IF open_locked
           THEN /\ ret' = [op |-> "Open", err |-> "ErrLocked"]
                /\ UNCHANGED <<kv, handle, encoder, nsecret, nheld, closed>>
           ELSE \E r \in {Open_run(kv, padlock, nsecret)} :
                    /\ r.nsecret <= MaxSecrets
                    /\ kv' = r.kv
                    /\ handle' = r.handle
                    /\ encoder' = r.encoder
                    /\ nsecret' = r.nsecret
                    /\ nheld' = IF handle' # "none" THEN nheld + 1 ELSE nheld
                    /\ closed' = IF handle' = "open" THEN 0 ELSE closed
                    /\ ret' = [op |-> "Open", err |-> r.err]
    /\ dropped' = NoDrop
    /\ UNCHANGED <<backend, hist, snap, nops, twin>>
    /\ UNCHANGED conc

\* CryptReset up to the table listing: open, set the marker
CryptReset_begin ==
    /\ backend = "bolt"
    /\ IF open_locked
           THEN /\ ret' = [op |-> "CryptReset", err |-> "ErrLocked"]
                /\ UNCHANGED <<kv, handle, hist, snap, nheld>>
           ELSE /\ handle' = "reset"
                /\ nheld' = nheld + 1
                /\ kv' = CryptReset_mark(kv)
                /\ snap' = [taken |-> TRUE, h |-> hist]
                /\ hist' = HistReset(hist)
                /\ ret' = [op |-> "CryptReset", err |-> "running"]
    /\ dropped' = NoDrop
    /\ UNCHANGED <<backend, encoder, nsecret, nops, closed, twin>>
    /\ UNCHANGED conc

\* one db.Unset of an encrypted record
CryptReset_step ==
    /\ handle = "reset"
    /\ PendingTables(kv) # <<>>
    /\ kv' = CryptReset_unset(kv)
    /\ UNCHANGED <<backend, handle, encoder, nsecret, ret, hist, snap, dropped, nops,
                    nheld, closed, twin>>
    /\ UNCHANGED conc

\* the loop is over: db.Drop("KVLite"), db.Close()
CryptReset_end ==
    /\ handle = "reset"
    /\ PendingTables(kv) = <<>>
    /\ LET r == CryptReset_drop(kv)
       IN  /\ kv' = r.kv
           /\ ret' = [op |-> "CryptReset", err |-> r.err]
    /\ handle' = "none"
    /\ nheld' = nheld - 1
    /\ UNCHANGED <<backend, encoder, nsecret, hist, snap, dropped, nops, closed, twin>>
    /\ UNCHANGED conc

\* the process dies inside CryptReset: the file keeps what was committed
Crash ==
    /\ handle = "reset"
    /\ handle' = "none"
    /\ nheld' = nheld - 1
    /\ ret' = [op |-> "CryptReset", err |-> "crash"]
    /\ UNCHANGED <<backend, kv, encoder, nsecret, hist, snap, dropped, nops, closed, twin>>
    /\ UNCHANGED conc

(***************************************************************************)
(* boltDB.Drop called by concurrent goroutines, transaction by transaction *)
(***************************************************************************)
\* the history without the records of the one table name
HistDelete(h, name) == [x \in {y \in DOMAIN h : y[1] # name} |-> h[x]]

\* K.buckets(false) in its View transaction, and the selection of the tables
Drop_tables(db, table) ==
    SelectSeq(boltDB_buckets(db, FALSE), LAMBDA v : DropSelects(v, table))

\* boltDB.Drop up to the loop: the listing, and the return when nothing is selected
Drop_list(th, s, table) ==
    /\ Usable
    /\ backend = "bolt"
    /\ thr[th].pc = "idle"
    /\ LET d == Delegated(s, table)
           tables == Drop_tables(kv, d)
       IN  thr' = [thr EXCEPT ![th] =
                       IF Len(tables) = 0 THEN Idle("Drop", "nil")
                       ELSE [Idle("Drop", "nil") EXCEPT !.pc = "deleting", !.table = d,
                                                        !.pending = tables,
                                                        !.listed = ToSet(tables)]]
    /\ nops' = nops + 1
    /\ snap' = NoSnap
    /\ dropped' = NoDrop
    /\ closed' = 0
    /\ UNCHANGED <<backend, kv, handle, encoder, nsecret, ret, hist, nheld, twin, mutex>>

\* one turn of the loop: tx.DeleteBucket in an Update transaction of its own; after the
\* last turn Drop returns the error of that turn
Drop_delete(th) ==
    /\ handle = "open"
    /\ thr[th].pc = "deleting"
    /\ LET v == Head(thr[th].pending)
           r == DeleteBucket(kv, v)
       IN  /\ kv' = r.kv
           /\ hist' = HistDelete(hist, v)
           /\ thr' = [thr EXCEPT ![th] =
                          IF Tail(thr[th].pending) = <<>> THEN Idle("Drop", r.err)
                          ELSE [@ EXCEPT !.pending = Tail(@), !.err = r.err]]
    /\ snap' = NoSnap
    /\ dropped' = NoDrop
    /\ UNCHANGED <<backend, handle, encoder, nsecret, ret, nops, nheld, closed, twin, mutex>>

(***************************************************************************)
(* memStore called by concurrent goroutines: K.mutex is a sync.RWMutex,    *)
(* every method takes it first and releases it in a deferred call          *)
(***************************************************************************)
\* the methods that write K.kv
Mutates(op) == op \in {"Set", "CryptSet", "Unset", "Drop", "Close"}

\* every method under RLock
LockMode_read(op) == "shared"

\* K.mutex.RLock() in buckets, Keys, Get and CountKeys (Tables locks inside buckets),
\* K.mutex.Lock() in Drop, Unset, set and Close
LockMode(op) ==
    IF op \in {"Get", "Keys", "CountKeys", "Tables", "buckets"} THEN "shared" ELSE "exclusive"

\* an unlock that a return with an error skips
Releases_noerr(op, err) == err = "nil"

\* defer K.mutex.Unlock() / defer K.mutex.RUnlock(): runs on every return
Releases(op, err) == TRUE

\* the call is between K.mutex.Lock()/RLock() and the deferred unlock
InCS(t) == t.pc \in {"cs", "put", "deleting", "unlock"}

\* a method of the memStore is called: the goroutine stands before the lock
Mem_call(th, op, table, key, value) ==
    /\ Usable
    /\ backend = "mem"
    /\ thr[th].pc = "idle"
    /\ thr' = [thr EXCEPT ![th] = [Idle(op, "nil") EXCEPT !.pc = "lock", !.table = table,
                                                          !.key = key, !.value = value]]
    /\ nops' = nops + 1
    /\ snap' = NoSnap
    /\ dropped' = NoDrop
    /\ closed' = 0
    /\ UNCHANGED <<backend, kv, handle, encoder, nsecret, ret, hist, nheld, twin, mutex>>

\* RWMutex.Lock, first half: the writer excludes the other writers and every reader
\* that has not yet entered
Mem_Lock(th) ==
    /\ thr[th].pc = "lock"
    /\ LockMode(thr[th].op) = "exclusive"
    /\ mutex.writer = 0
    /\ mutex' = [mutex EXCEPT !.writer = th]
    /\ thr' = [thr EXCEPT ![th].pc = "wait"]
    /\ UNCHANGED <<backend, kv, handle, encoder, nsecret, ret, hist, snap, dropped, nops,
                   nheld, closed, twin>>

\* RWMutex.Lock, second half: it returns when the readers inside have left
Mem_Lock_wait(th) ==
    /\ thr[th].pc = "wait"
    /\ mutex.readers = {}
    /\ thr' = [thr EXCEPT ![th] = [@ EXCEPT !.pc = "cs", !.nlock = @ + 1, !.before = kv]]
    /\ UNCHANGED <<backend, kv, handle, encoder, nsecret, ret, hist, snap, dropped, nops,
                   nheld, closed, twin, mutex>>

\* RWMutex.RLock: it returns when no writer holds or awaits the lock
Mem_RLock(th) ==
    /\ thr[th].pc = "lock"
    /\ LockMode(thr[th].op) = "shared"
    /\ mutex.writer = 0
    /\ mutex' = [mutex EXCEPT !.readers = @ \cup {th}]
    /\ thr' = [thr EXCEPT ![th] = [@ EXCEPT !.pc = "cs", !.nlock = @ + 1, !.before = kv]]
    /\ UNCHANGED <<backend, kv, handle, encoder, nsecret, ret, hist, snap, dropped, nops,
                   nheld, closed, twin>>

\* the body of Get, Keys, CountKeys and buckets (for Tables: buckets(true))
Mem_read(th) ==
    /\ thr[th].pc = "cs"
    /\ ~Mutates(thr[th].op)
    /\ LET t == thr[th]
           g == memStore_Get(kv, encoder, t.table, t.key)
       IN  \E res \in CASE t.op = "Get" ->
                              {[NoOut EXCEPT !.found = g.found, !.out = g.out, !.err = g.err]}
                        [] t.op = "Keys" ->
                              {[NoOut EXCEPT !.names = memStore_Keys(kv, t.table, o)] :
                                  o \in MapOrders(IF t.table \in DOMAIN kv
                                                      THEN DOMAIN kv[t.table] ELSE {})}
                        [] t.op = "CountKeys" ->
                              {[NoOut EXCEPT !.count = memStore_CountKeys(kv, t.table)]}
                        [] t.op = "buckets" ->
                              {[NoOut EXCEPT !.names = memStore_buckets(kv, FALSE, o)] :
                                  o \in MapOrders(DOMAIN kv)}
                        [] OTHER ->
                              {[NoOut EXCEPT !.names = memStore_buckets(kv, TRUE, o)] :
                                  o \in MapOrders(DOMAIN kv)} :
               thr' = [thr EXCEPT ![th] = [@ EXCEPT !.pc = "unlock", !.out = res,
                                                    !.err = res.err]]
    /\ UNCHANGED <<backend, kv, handle, encoder, nsecret, ret, hist, snap, dropped, nops,
                   nheld, closed, twin, mutex>>

\* set, lines 131-133: the table is created
Mem_set_create(th) ==
    /\ thr[th].pc = "cs"
    /\ thr[th].op \in {"Set", "CryptSet"}
    /\ kv' = IF thr[th].table \in DOMAIN kv THEN kv ELSE Put(kv, thr[th].table, EmptyBucket)
    /\ thr' = [thr EXCEPT ![th].pc = "put"]
    /\ UNCHANGED <<backend, handle, encoder, nsecret, ret, hist, snap, dropped, nops,
                   nheld, closed, twin, mutex>>

\* set, lines 135-149: the value is encoded; an error returns, else the record is put
Mem_set_put(th) ==
    /\ thr[th].pc = "put"
    /\ LET t == thr[th]
           r == memStore_set(kv, encoder, t.table, t.key, t.value, t.op = "CryptSet")
       IN  /\ kv' = r.kv
           /\ thr' = [thr EXCEPT ![th] = [@ EXCEPT !.pc = "unlock", !.err = r.err]]
    /\ UNCHANGED <<backend, handle, encoder, nsecret, ret, hist, snap, dropped, nops,
                   nheld, closed, twin, mutex>>

\* the body of Unset
Mem_Unset(th) ==
    /\ thr[th].pc = "cs"
    /\ thr[th].op = "Unset"
    /\ kv' = memStore_Unset(kv, thr[th].table, thr[th].key).kv
    /\ thr' = [thr EXCEPT ![th].pc = "unlock"]
    /\ UNCHANGED <<backend, handle, encoder, nsecret, ret, hist, snap, dropped, nops,
                   nheld, closed, twin, mutex>>

\* one turn of the range over K.kv in Drop and in Close: a table is deleted; the loop
\* ends when the map holds no table to delete
Mem_delete(th) ==
    /\ thr[th].pc \in {"cs", "deleting"}
    /\ thr[th].op \in {"Drop", "Close"}
    /\ LET rest == IF thr[th].op = "Close" THEN DOMAIN kv
                   ELSE {k \in DOMAIN kv : Covers(thr[th].table, k)}
       IN  IF rest = {} THEN /\ thr' = [thr EXCEPT ![th].pc = "unlock"]
                             /\ kv' = kv
           ELSE /\ thr' = [thr EXCEPT ![th].pc = "deleting"]
                /\ \E k \in rest : kv' = Remove(kv, k)
    /\ UNCHANGED <<backend, handle, encoder, nsecret, ret, hist, snap, dropped, nops,
                   nheld, closed, twin, mutex>>

\* the return of the method and its deferred Unlock / RUnlock
Mem_return(th) ==
    /\ thr[th].pc = "unlock"
    /\ LET t == thr[th]
       IN  /\ mutex' = IF ~Releases(t.op, t.err) THEN mutex
                       ELSE IF LockMode(t.op) = "exclusive" THEN [mutex EXCEPT !.writer = 0]
                       ELSE [mutex EXCEPT !.readers = @ \ {th}]
           /\ thr' = [thr EXCEPT ![th] = Idle(t.op, t.err)]
           /\ hist' = CASE t.op \in {"Set", "CryptSet"} /\ t.err = "nil" ->
                               HistSet(hist, t.table, t.key, t.value, t.op = "CryptSet")
                         [] t.op = "Unset" -> HistUnset(hist, t.table, t.key)
                         [] t.op = "Drop" -> HistDrop(hist, t.table)
                         [] t.op = "Close" -> << >>
                         [] OTHER -> hist
    /\ UNCHANGED <<backend, kv, handle, encoder, nsecret, ret, snap, dropped, nops,
                   nheld, closed, twin>>

\* the steps of one goroutine inside a call
Mem_step(th) ==
    \/ Mem_Lock(th)
    \/ Mem_Lock_wait(th)
    \/ Mem_RLock(th)
    \/ Mem_read(th)
    \/ Mem_set_create(th)
    \/ Mem_set_put(th)
    \/ Mem_Unset(th)
    \/ Mem_delete(th)
    \/ Mem_return(th)

(***************************************************************************)
(* Specifications                                                          *)
(***************************************************************************)
Inputs == Values

\* a Store in hand: Open of a new file with no padlock, or MemStore()
Init ==
    /\ backend \in {"bolt", "mem"}
    /\ LET r == Open_run(EmptyDB, "", 0)
       IN  IF backend = "bolt"
               THEN kv = r.kv /\ encoder = r.encoder /\ nsecret = r.nsecret
               ELSE kv = MemStore.kv /\ encoder = MemStore.encoder /\ nsecret = 0
    /\ handle = "open"
    /\ ret = [op |-> "none", err |-> "nil"]
    /\ hist = << >>
    /\ snap = NoSnap
    /\ dropped = NoDrop
    /\ nops = 0
    /\ nheld = IF backend = "bolt" THEN 1 ELSE 0
    /\ closed = 0
    /\ twin = TwinOff
    /\ thr = NoCalls
    /\ mutex = Unlocked

\* the data operations on the stores S with the keys K, and Close
DataNext(S, K) ==
    \/ \E s \in S : \E t \in TablesOf(s) : \E k \in K : \E v \in Inputs : Set(s, t, k, v)
    \/ \E s \in S : \E t \in TablesOf(s) : \E k \in K : \E v \in Inputs : CryptSet(s, t, k, v)
    \/ \E s \in S : \E t \in TablesOf(s) : \E k \in K : Unset(s, t, k)
    \/ \E s \in S : \E t \in TablesOf(s) : Drop(s, t)
    \/ Close

Next == DataNext(Stores, Keys)

Spec == Init /\ [][Next]_vars

\* the same operations with one key: the router's table names are what varies
NextRouter == DataNext(Stores, LifeKeys)

SpecRouter == Init /\ [][NextRouter]_vars

\* the life of one database file: opened, written, closed, reset, reopened
LifeStores == {Root, StoreA}
LifeTablesOf(s) == IF s = Root THEN {TableA} ELSE {TableX}

InitLife ==
    /\ backend = "bolt"
    /\ kv = EmptyDB
    /\ handle = "none"
    /\ encoder = 0
    /\ nsecret = 0
    /\ ret = [op |-> "none", err |-> "nil"]
    /\ hist = << >>
    /\ snap = NoSnap
    /\ dropped = NoDrop
    /\ nops = 0
    /\ nheld = 0
    /\ closed = 0
    /\ twin = TwinOff
    /\ thr = NoCalls
    /\ mutex = Unlocked

NextLife ==
    \/ \E p \in Padlocks : Open(p)
    \/ Close
    \/ CryptReset_begin
    \/ CryptReset_step
    \/ CryptReset_end
    \/ Crash
    \/ \E s \in LifeStores : \E t \in LifeTablesOf(s) : \E k \in LifeKeys : \E v \in Inputs :
           Set(s, t, k, v)
    \/ \E s \in LifeStores : \E t \in LifeTablesOf(s) : \E k \in LifeKeys : \E v \in Inputs :
           CryptSet(s, t, k, v)
    \/ \E s \in LifeStores : \E t \in LifeTablesOf(s) : \E k \in LifeKeys : Unset(s, t, k)
    \/ \E s \in LifeStores : \E t \in LifeTablesOf(s) : Drop(s, t)

SpecLife == InitLife /\ [][NextLife]_vars

\* a persistent store and an in-memory store given the same calls, the values that do
\* not serialize included
EquivStores == {Root, StoreA}
EquivInputs == Values \cup {BadValue}

InitEquiv ==
    /\ backend = "bolt"
    /\ LET r == Open_run(EmptyDB, "", 0)
       IN  kv = r.kv /\ encoder = r.encoder /\ nsecret = r.nsecret
    /\ handle = "open"
    /\ ret = [op |-> "none", err |-> "nil"]
    /\ hist = << >>
    /\ snap = NoSnap
    /\ dropped = NoDrop
    /\ nops = 0
    /\ nheld = 1
    /\ closed = 0
    /\ twin = [on |-> TRUE, kv |-> MemStore.kv]
    /\ thr = NoCalls
    /\ mutex = Unlocked

NextEquiv ==
    \/ \E s \in EquivStores : \E t \in TablesOf(s) : \E k \in Keys : \E v \in EquivInputs :
           Set(s, t, k, v)
    \/ \E s \in EquivStores : \E t \in TablesOf(s) : \E k \in Keys : \E v \in EquivInputs :
           CryptSet(s, t, k, v)
    \/ \E s \in EquivStores : \E t \in TablesOf(s) : \E k \in Keys : Unset(s, t, k)
    \/ \E s \in EquivStores : \E t \in TablesOf(s) : Drop(s, t)

SpecEquiv == InitEquiv /\ [][NextEquiv]_vars

\* a caller at the root who passes a table name that embeds the separator: the name of
\* the backend table of sub-store "a"
SepTable == <<"a", sepr, sepr>>
SepStores == {Root, StoreA}
SepTablesOf(s) == IF s = Root THEN {TableA, SepTable} ELSE {TableX}

NextSep ==
    \/ \E s \in SepStores : \E t \in SepTablesOf(s) : \E k \in Keys : \E v \in Inputs :
           Set(s, t, k, v)
    \/ \E s \in SepStores : \E t \in SepTablesOf(s) : \E k \in Keys : \E v \in Inputs :
           CryptSet(s, t, k, v)
    \/ \E s \in SepStores : \E t \in SepTablesOf(s) : \E k \in Keys : Unset(s, t, k)
    \/ \E s \in SepStores : \E t \in SepTablesOf(s) : Drop(s, t)

SpecSep == Init /\ [][NextSep]_vars

\* the sessions of a file whose callers also write the record "X" of the system table
NextLeak ==
    \/ \E p \in Padlocks : Open(p)
    \/ Close
    \/ \E v \in Inputs : Set(Root, KVLite, XKey, v)
    \/ \E k \in LifeKeys : \E v \in Inputs : CryptSet(Root, TableA, k, v)
    \/ CryptReset_begin
    \/ CryptReset_step
    \/ CryptReset_end

SpecLeak == InitLife /\ [][NextLeak]_vars

\* the reading methods among the writes, on the root and on a sub-store
ReadOps == {"Get", "Keys", "CountKeys", "Tables", "Buckets", "BucketsDepth"}

NextRead ==
    \/ \E s \in LifeStores : \E t \in LifeTablesOf(s) : \E k \in LifeKeys : \E v \in Inputs :
           Set(s, t, k, v)
    \/ \E s \in LifeStores : \E t \in LifeTablesOf(s) : \E k \in LifeKeys : \E v \in Inputs :
           CryptSet(s, t, k, v)
    \/ \E s \in LifeStores : \E t \in LifeTablesOf(s) : \E k \in LifeKeys : Unset(s, t, k)
    \/ \E s \in LifeStores : \E t \in LifeTablesOf(s) : Drop(s, t)
    \/ \E s \in LifeStores : \E t \in LifeTablesOf(s) : \E k \in LifeKeys :
           Read("Get", s, t, k)
    \/ \E s \in LifeStores : \E t \in LifeTablesOf(s) : \E op \in {"Keys", "CountKeys"} :
           Read(op, s, t, <<>>)
    \/ \E s \in LifeStores : \E op \in {"Tables", "Buckets", "BucketsDepth"} :
           Read(op, s, <<>>, <<>>)

SpecRead == Init /\ [][NextRead]_vars

\* writes through the root and the sub-stores, and Close called on any of them
NextClose ==
    \/ \E s \in Stores : \E t \in LifeTablesOf(s) : \E k \in LifeKeys : \E v \in Inputs :
           Set(s, t, k, v)
    \/ \E s \in Stores : \E t \in LifeTablesOf(s) : \E k \in LifeKeys : \E v \in Inputs :
           CryptSet(s, t, k, v)
    \/ \E s \in Stores : Close_on(s)

SpecClose == Init /\ [][NextClose]_vars

\* goroutines that share one persistent store: Set and CryptSet are one transaction
\* each, Drop is a listing followed by one transaction for every table
InitDrop == Init /\ backend = "bolt"

NextDrop ==
    \/ \E th \in Threads : \E s \in LifeStores : \E t \in LifeTablesOf(s) : Drop_list(th, s, t)
    \/ \E th \in Threads : Drop_delete(th)
    \/ \E s \in LifeStores : \E t \in LifeTablesOf(s) : \E k \in LifeKeys : \E v \in Inputs :
           Set(s, t, k, v)
    \/ \E s \in LifeStores : \E t \in LifeTablesOf(s) : \E k \in LifeKeys : \E v \in Inputs :
           CryptSet(s, t, k, v)

SpecDrop == InitDrop /\ [][NextDrop]_vars

\* the operations of the root and a sub-store, called on the store and through a Table
NextTable ==
    \/ \E s \in LifeStores : \E t \in LifeTablesOf(s) : \E k \in LifeKeys : \E v \in Inputs :
           Set(s, t, k, v)
    \/ \E s \in LifeStores : \E t \in LifeTablesOf(s) : \E k \in LifeKeys : \E v \in Inputs :
           CryptSet(s, t, k, v)
    \/ \E s \in LifeStores : \E t \in LifeTablesOf(s) : \E k \in LifeKeys : Unset(s, t, k)
    \/ \E s \in LifeStores : \E t \in LifeTablesOf(s) : Drop(s, t)
    \/ \E s \in LifeStores : \E t \in LifeTablesOf(s) : \E k \in LifeKeys : \E v \in Inputs :
           focused_Set(s, t, k, v)
    \/ \E s \in LifeStores : \E t \in LifeTablesOf(s) : \E k \in LifeKeys : \E v \in Inputs :
           focused_CryptSet(s, t, k, v)
    \/ \E s \in LifeStores : \E t \in LifeTablesOf(s) : \E k \in LifeKeys :
           focused_Unset(s, t, k)
    \/ \E s \in LifeStores : \E t \in LifeTablesOf(s) : focused_Drop(s, t)

SpecTable == Init /\ [][NextTable]_vars

\* goroutines that share one MemStore()
MemTables == {TableA, Delegated(StoreA, TableX)}
MemInputs == {<<"string", "v1">>, BadValue}

InitMem == Init /\ backend = "mem"

NextMem ==
    \/ \E th \in Threads : \E t \in MemTables : \E k \in LifeKeys : \E v \in MemInputs :
           \E op \in {"Set", "CryptSet"} : Mem_call(th, op, t, k, v)
    \/ \E th \in Threads : \E t \in MemTables : \E k \in LifeKeys :
           \E op \in {"Get", "Unset"} : Mem_call(th, op, t, k, NoValue)
    \/ \E th \in Threads : \E t \in {TableA} :
           \E op \in {"Keys", "CountKeys", "Drop"} : Mem_call(th, op, t, <<>>, NoValue)
    \/ \E th \in Threads : \E op \in {"Tables", "buckets", "Close"} :
           Mem_call(th, op, <<>>, <<>>, NoValue)
    \/ \E th \in Threads : Mem_step(th)

SpecMem == InitMem /\ [][NextMem]_vars

\* the Go scheduler runs every goroutine that can take a step
SpecMemFair == SpecMem /\ \A th \in Threads : WF_vars(Mem_step(th))

\* the data operations with a value that gob cannot serialize among the inputs
NextBad ==
    \/ \E s \in LifeStores : \E t \in LifeTablesOf(s) : \E k \in Keys : \E v \in MemInputs :
           Set(s, t, k, v)
    \/ \E s \in LifeStores : \E t \in LifeTablesOf(s) : \E k \in Keys : \E v \in MemInputs :
           CryptSet(s, t, k, v)
    \/ \E s \in LifeStores : \E t \in LifeTablesOf(s) : \E k \in Keys : Unset(s, t, k)
    \/ \E s \in LifeStores : \E t \in LifeTablesOf(s) : Drop(s, t)

SpecBad == Init /\ [][NextBad]_vars

(***************************************************************************)
(* Properties                                                              *)
(***************************************************************************)
Found(v) == [found |-> TRUE, out |-> v, err |-> "nil"]
NotFound == [found |-> FALSE, out |-> NoValue, err |-> "nil"]

\* what the contract says Get returns for backend table t and key k
Expected(t, k) == IF <<t, k>> \in DOMAIN hist THEN Found(hist[<<t, k>>].val) ELSE NotFound

\* every table name a caller uses, at the root or through a sub-store
Names == RootTables \cup SubTables

\* the step is a set / Unset / Drop through store s
SetVia(s) ==
    \E t \in TablesOf(s) : \E k \in Keys : \E v \in Inputs : \E c \in BOOLEAN : set(s, t, k, v, c)
UnsetVia(s) == \E t \in TablesOf(s) : \E k \in Keys : Unset(s, t, k)
DropVia(s, t) == Drop(s, t)

\* what store s reads does not change in the step
SameView(s) == \A t \in Names : \A k \in Keys : GetNext(s, t, k) = Get(s, t, k)

\* C1: at the root store of either backend, after any sequence of Set, CryptSet,
\* Unset and Drop, Get(t,k) returns (v,true) for the value v of the most recent
\* write to (t,k) not removed since by Unset(t,k) or a Drop covering t, and
\* found=false (no error) when there is no such write.
C1_RoundTrip ==
    handle = "open" => \A t \in Names : \A k \in Keys : Get(Root, t, k) = Expected(t, k)

\* C1 witness: one key of a root table holds the second value, the other key of the
\* same table was removed or never written, and another table holds data too
C1_Witness ==
    /\ handle = "open"
    /\ nops = MaxOps
    /\ Get(Root, TableA, <<"k">>) = Found(<<"string", "v2">>)
    /\ Get(Root, TableA, <<"m">>) = NotFound
    /\ TableA \in DOMAIN kv /\ DOMAIN kv[TableA] = {<<"k">>}
    /\ Get(Root, TableAB, <<"k">>).found

\* C2 (as claimed): through one sub-store two table names are two backend tables,
\* so a Set or CryptSet to t1 and a Drop of t1 leave what Get(t2,k) returns unchanged.
C2_SubStoreTables ==
    [][\A s \in SubStores : \A t1 \in TablesOf(s) : \A t2 \in TablesOf(s) \ {t1} :
           ((\E k \in LifeKeys : \E v \in Inputs : \E c \in BOOLEAN : set(s, t1, k, v, c))
               \/ Drop(s, t1))
           => \A k \in LifeKeys : GetNext(s, t2, k) = Get(s, t2, k)]_vars

C4_CascadingDrop ==
    [][dropped' # NoDrop =>
           kv' = [t \in {x \in DOMAIN kv : ~Covers(dropped'.table, x)} |-> kv[t]]]_vars

\* C4 witness: Drop("a") at the root removed table a and the table of sub-store a,
\* and the root table ab still holds its key
C4_Witness ==
    /\ dropped # NoDrop
    /\ dropped.table = TableA
    /\ {TableA, Delegated(StoreA, TableX)} \subseteq dropped.removed
    /\ TableAB \in DOMAIN kv
    /\ DOMAIN kv[TableAB] # {}

\* the system table of the buckets db
Marker(db) == Lookup(db, KVLite, ResetKey) # Nil
HasLockState(db) == Lookup(db, KVLite, XKey) # Nil
LockPadlock(db) == boltDB_Get(db, 0, KVLite, XKey, TRUE).out[3]

ResetReturned == ret = [op |-> "CryptReset", err |-> "nil"]
ResetCrashed == ret = [op |-> "CryptReset", err |-> "crash"]

\* C5: after CryptReset and a reopening, in every table of every namespace, a key
\* last written with CryptSet before the reset is not found and a key last written
\* with Set has its value.
C5_CryptResetOutcome ==
    (handle = "open" /\ snap.taken) =>
        \A s \in Stores : \A t \in TablesOf(s) : \A k \in Keys :
            LET x == <<Delegated(s, t), k>>
            IN  x \in DOMAIN snap.h =>
                    Get(s, t, k) = IF snap.h[x].crypt THEN NotFound ELSE Found(snap.h[x].val)

\* C5 witness: the store is open again after a reset that began with an encrypted
\* record in a root table and a plain record in a sub-store's table
C5_Witness ==
    /\ handle = "open"
    /\ snap.taken
    /\ ResetReturned = FALSE
    /\ ret = [op |-> "Open", err |-> "nil"]
    /\ <<TableA, <<"k">>>> \in DOMAIN snap.h
    /\ snap.h[<<TableA, <<"k">>>>].crypt
    /\ <<Delegated(StoreA, TableX), <<"k">>>> \in DOMAIN snap.h
    /\ ~snap.h[<<Delegated(StoreA, TableX), <<"k">>>>].crypt

\* C6 (as claimed): when CryptReset has returned without error the system table
\* holds neither the reset marker nor the lock-state record.
C6_ResetClearsSystemTable == ResetReturned => (~Marker(kv) /\ ~HasLockState(kv))

\* C7 (as claimed): the Open that follows a completed CryptReset finds no lock state,
\* generates a new master secret and succeeds, whatever the padlock.
C7_FreshAfterReset ==
    [][\A p \in Padlocks :
           (ResetReturned /\ handle = "none" /\ Open(p))
           => (ret'.err = "nil" /\ handle' = "open"
               /\ nsecret' = nsecret + 1 /\ encoder' = nsecret')]_vars

\* C8 (as claimed): Open with a padlock other than the one of the lock-state record
\* fails with ErrBadPadlock, returns no Store, releases the file and leaves every
\* record unchanged; Open of a new file succeeds and binds the file to the padlock,
\* which then opens it.
C8_PadlockMismatch ==
    [][\A p \in Padlocks :
           (handle = "none" /\ Open(p)) =>
               IF HasLockState(kv)
                   THEN IF LockPadlock(kv) # p
                            THEN ret'.err = "ErrBadPadlock" /\ handle' = "none" /\ kv' = kv
                            ELSE ret'.err = "nil" /\ handle' = "open"
                   ELSE kv = EmptyDB =>
                            (ret'.err = "nil" /\ handle' = "open" /\ LockPadlock(kv') = p)]_vars

\* C8 (amended): the same, for a database whose system table holds no reset marker
\* (with a marker pending Open purges the encrypted records before it tries the
\* padlock).
C8_PadlockMismatchNoReset ==
    [][\A p \in Padlocks :
           (handle = "none" /\ ~Marker(kv) /\ Open(p)) =>
               IF HasLockState(kv)
                   THEN IF LockPadlock(kv) # p
                            THEN ret'.err = "ErrBadPadlock" /\ handle' = "none" /\ kv' = kv
                            ELSE ret'.err = "nil" /\ handle' = "open"
                   ELSE kv = EmptyDB =>
                            (ret'.err = "nil" /\ handle' = "open" /\ LockPadlock(kv') = p)]_vars

\* C8 witness: a database bound to padlock A, holding an encrypted record and no marker,
\* has just refused another padlock
C8_Witness ==
    /\ ret = [op |-> "Open", err |-> "ErrBadPadlock"]
    /\ handle = "none"
    /\ ~Marker(kv)
    /\ HasLockState(kv) /\ LockPadlock(kv) = "A"
    /\ \E x \in DOMAIN hist : hist[x].crypt

\* C9 (as claimed): a CryptReset that crashed after it set the marker leaves the
\* marker in place, and the next Open completes the purge and returns a Store.
C9_InterruptedResetResumes ==
    [][/\ ResetCrashed' => Marker(kv')
       /\ \A p \in Padlocks :
              (ResetCrashed /\ Open(p))
              => (ret'.err = "nil" /\ handle' = "open" /\ PendingTables(kv') = <<>>)]_vars

\* C10 (as claimed): a value written with CryptSet and not removed is read back in
\* every later session of the file, unless a CryptReset was called since.
C10_EncryptedPersist ==
    handle = "open" =>
        \A s \in Stores : \A t \in TablesOf(s) : \A k \in Keys :
            LET x == <<Delegated(s, t), k>>
            IN  (x \in DOMAIN hist /\ hist[x].crypt) => Get(s, t, k) = Found(hist[x].val)

Locked(op) == [op |-> op, err |-> "ErrLocked"]

\* C11: an Open or a CryptReset attempted while a handle holds the file fails with
\* ErrLocked in one attempt and changes nothing, so at no time do two handles (the one
\* CryptReset opens included) hold the file.
C11_ExclusiveAccess ==
    /\ nheld <= 1
    /\ [][/\ nheld' <= 1
          /\ \A p \in Padlocks :
                 (nheld > 0 /\ Open(p))
                 => (ret' = Locked("Open") /\ UNCHANGED <<kv, handle, encoder, nheld>>)
          /\ (nheld > 0 /\ CryptReset_begin)
                 => (ret' = Locked("CryptReset") /\ UNCHANGED <<kv, handle, encoder, nheld>>)]_vars

\* C11 witness: an Open was refused while the handle of a running CryptReset held the file
C11_Witness ==
    /\ ret = Locked("Open")
    /\ handle = "reset"
    /\ nheld = 1

\* key k of backend table d does not exist
Absent(d, k) == d \notin DOMAIN kv \/ k \notin DOMAIN kv[d]

\* C12: on both backends, for a table or key that does not exist, Get returns found=false
\* and no error, Keys an empty list and no error, CountKeys 0 and no error, and Unset and
\* Drop return no error.
C12_AbsenceIsNoError ==
    handle = "open" =>
        \A s \in Stores : \A t \in Names : \A k \in Keys :
            LET d == Delegated(s, t)
            IN  /\ Absent(d, k) => (Get(s, t, k) = NotFound /\ K_Unset(kv, d, k).err = "nil")
                /\ d \notin DOMAIN kv =>
                       /\ K_Keys(kv, d) = {[keys |-> <<>>, err |-> "nil"]}
                       /\ K_CountKeys(kv, d) = [count |-> 0, err |-> "nil"]
                       /\ K_Drop(kv, d).err = "nil"

\* C12 witness: after a Drop, one root table holds one of the two keys and the other
\* root table does not exist
C12_Witness ==
    /\ handle = "open"
    /\ dropped # NoDrop
    /\ TableA \in DOMAIN kv /\ DOMAIN kv[TableA] = {<<"k">>}
    /\ TableAB \notin DOMAIN kv

\* the keys the contract says backend table d holds
HistKeys(d) == {k \in Keys : <<d, k>> \in DOMAIN hist}

\* C13: after any sequence of Set, CryptSet, Unset and Drop on either backend, for every
\* table CountKeys equals the length of the list Keys returns, the list holds each key
\* of the table exactly once, and both are 0 / empty for a table never written.
C13_CountMatchesKeys ==
    handle = "open" =>
        \A s \in Stores : \A t \in Names :
            LET d == Delegated(s, t)
            IN  \A r \in K_Keys(kv, d) :
                    /\ K_CountKeys(kv, d).count = Len(r.keys)
                    /\ ToSet(r.keys) = HistKeys(d)
                    /\ Cardinality(ToSet(r.keys)) = Len(r.keys)

\* C13 witness: a table with two keys, a table whose only key was removed, and a table
\* never written
C13_Witness ==
    /\ handle = "open"
    /\ TableA \in DOMAIN kv /\ DOMAIN kv[TableA] = Keys
    /\ TableAB \in DOMAIN kv /\ DOMAIN kv[TableAB] = {}
    /\ TableX \notin DOMAIN kv

\* the record the contract says a write of value v stores
Framed(v, crypt) ==
    IF crypt THEN <<1, encrypt(encoder, encode(v).out)>> ELSE <<0, encode(v).out>>

\* C14: every stored record is a flag byte followed by the payload: flag 1 and
\* encrypt(encode(v)) for the last write by CryptSet, flag 0 and encode(v) for the last
\* write by Set, whatever the earlier writes of the key were; Get returns v in both cases.
C14_EncryptionFraming ==
    handle = "open" =>
        /\ \A d \in (DOMAIN kv) \ {KVLite} : \A k \in DOMAIN kv[d] : <<d, k>> \in DOMAIN hist
        /\ \A x \in DOMAIN hist :
               /\ Lookup(kv, x[1], x[2]) = Framed(hist[x].val, hist[x].crypt)
               /\ K_Get(kv, encoder, x[1], x[2]) = Found(hist[x].val)

\* C14 witness: a key written with CryptSet and then with Set holds flag 0, and a key
\* written with Set and then with CryptSet holds flag 1
C14_Witness ==
    /\ handle = "open"
    /\ nops = MaxOps
    /\ Lookup(kv, TableA, <<"k">>) = Framed(<<"string", "v2">>, FALSE)
    /\ Lookup(kv, TableA, <<"m">>) = Framed(<<"string", "v1">>, TRUE)

\* C15: after any sequence of operations, neither Tables() nor the bucket listing of any
\* store on either backend contains the reserved name of the system table (callers do
\* not use the reserved name).
C15_SystemTableHidden ==
    handle = "open" =>
        \A s \in Stores :
            /\ \A l \in Tables(s) : KVLite \notin ToSet(l)
            /\ \A limit_depth \in BOOLEAN : \A l \in Buckets(s, limit_depth) : KVLite \notin ToSet(l)

\* C15 witness: a persistent store with its system table, a root table and the table of
\* a sub-store
C15_Witness ==
    /\ handle = "open"
    /\ backend = "bolt"
    /\ {KVLite, TableAB, Delegated(StoreA, TableX)} \subseteq DOMAIN kv
    /\ \E l \in Tables(Root) : TableAB \in ToSet(l)

\* the names t without separator for which the backend table s + t exists
Children(db, s) ==
    {TrimPrefix(d, s) : d \in {x \in DOMAIN db : HasPrefix(x, s)
                                                  /\ ~ContainsRune(TrimPrefix(x, s), sepr)}}

\* C16 (as claimed): Tables() on a sub-store with prefix p returns exactly the names t
\* without separator for which the backend table p+t exists, and after a Set or CryptSet
\* of table t through the sub-store it contains t.
C16_SubStoreTablesListed ==
    [][\A s \in SubStores :
           /\ handle' = "open" => \A l \in TablesIn(kv', s) : ToSet(l) = Children(kv', s)
           /\ \A t \in TablesOf(s) : \A k \in LifeKeys : \A v \in Inputs : \A c \in BOOLEAN :
                  set(s, t, k, v, c) => \A l \in TablesIn(kv', s) : t \in ToSet(l)]_vars

\* the tables that exist at the root level
RootLevel(db) == {d \in (DOMAIN db) \ {KVLite} : ~ContainsRune(d, sepr)}

\* C17 (as claimed): Tables() on the root store returns exactly the tables that exist at
\* the root level, each once, so a namespace that has tables only inside its sub-stores
\* is not listed.
C17_RootTablesListed ==
    handle = "open" =>
        \A l \in Tables(Root) : ToSet(l) = RootLevel(kv) /\ Cardinality(ToSet(l)) = Len(l)

\* C18 (as claimed): a value written through Bucket(name) obtained from the root is
\* read back through the shared-namespace router for the same name obtained from any
\* sub-store, and a write through Sub(name) changes nothing Bucket(name) reads.
C18_SharedNamespace ==
    [][\A t \in SubTables : \A k \in LifeKeys : \A v \in Inputs : \A c \in BOOLEAN :
           /\ set(Bucket(Root, TableA), t, k, v, c)
                  => \A s \in SubStores : GetNext(Bucket(s, TableA), t, k) = Found(v)
           /\ set(Sub(Root, TableA), t, k, v, c)
                  => GetNext(Bucket(Root, TableA), t, k) = Get(Bucket(Root, TableA), t, k)]_vars

\* the keys of table d of the twin memStore
TwinKeys(d) == IF d \in DOMAIN twin.kv THEN DOMAIN twin.kv[d] ELSE {}

\* C19 (as claimed): after the same sequence of Set, CryptSet, Unset and Drop, directly
\* and through the same sub-stores, the persistent store and the in-memory store return
\* the same found flags, values, counts, key sets, table sets and errors.
C19_BackendEquivalence ==
    twin.on =>
        /\ \A s \in EquivStores : \A t \in Names : \A k \in Keys :
               LET d == Delegated(s, t)
               IN  /\ boltDB_Get(kv, encoder, d, k, TRUE)
                          = memStore_Get(twin.kv, MemStore.encoder, d, k)
                   /\ boltDB_CountKeys(kv, d) = memStore_CountKeys(twin.kv, d)
                   /\ \A o \in MapOrders(TwinKeys(d)) :
                          ToSet(boltDB_Keys(kv, d)) = ToSet(memStore_Keys(twin.kv, d, o))
                   /\ \A v \in EquivInputs : \A c \in BOOLEAN :
                          boltDB_set(kv, encoder, d, k, v, c).err
                              = memStore_set(twin.kv, MemStore.encoder, d, k, v, c).err
                   /\ boltDB_Unset(kv, d, k).err = memStore_Unset(twin.kv, d, k).err
                   /\ boltDB_Drop(kv, d).err = memStore_Drop(twin.kv, d).err
        /\ \A o \in MapOrders(DOMAIN twin.kv) :
               /\ ToSet(boltDB_Tables(kv)) = ToSet(memStore_Tables(twin.kv, o))
               /\ \A s \in EquivStores \ {Root} :
                      ToSet(substore_Tables(s, boltDB_buckets(kv, TRUE)))
                          = ToSet(substore_Tables(s, memStore_buckets(twin.kv, TRUE, o)))

\* the error the Close of the step returns
CloseErr ==
    IF backend = "bolt" THEN boltDB_Close(handle, nheld, closed > 0).err
    ELSE memStore_Close(kv).err

\* C20: every Close returns no error, a Close on a store already closed changes nothing,
\* and after a Close of the in-memory store Tables() is empty and every Get yields
\* found=false.
C20_CloseIdempotent ==
    [][Close =>
           /\ CloseErr = "nil"
           /\ closed > 0 => UNCHANGED <<kv, handle, encoder, nheld, hist>>
           /\ backend = "mem" =>
                  /\ \A l \in TablesIn(kv', Root) : l = <<>>
                  /\ \A s \in Stores : \A t \in Names : \A k \in Keys :
                         GetNext(s, t, k) = NotFound]_vars

\* C20 witness: an in-memory store that was written to has been closed twice
C20_Witness ==
    /\ backend = "mem"
    /\ closed >= 2
    /\ nops > 0
    /\ kv = EmptyDB

\* the step is a Set, CryptSet or Unset through store q
WriteVia(q) == SetVia(q) \/ UnsetVia(q)

\* Drop(t) through store q reaches the namespace of store p by the cascade: p lies
\* below the name q + t
Cascades(q, t, p) == HasPrefix(p, q \o t \o <<sepr>>)

\* C21 (as claimed): the prefix of Sub(n1)...Sub(nj) is n1+sep+...+nj+sep, and what one
\* path reads is never changed by a Set, CryptSet, Unset or Drop through another path;
\* Drop("a") at the root leaves the root table "ab" alone.
C21_PathsDisjoint ==
    [][/\ StoreAX = <<"a", sepr, "x", sepr>>
       /\ \A p \in Stores : \A q \in Stores \ {p} :
              (WriteVia(q) \/ \E t \in TablesOf(q) : DropVia(q, t)) => SameView(p)
       /\ Drop(Root, TableA) =>
              \A k \in Keys : GetNext(Root, TableAB, k) = Get(Root, TableAB, k)]_vars

\* C21 (amended): the same, except that a Drop of a name through one path removes the
\* records of the paths that lie below that name (the cascading drop).
C21_PathsDisjointButCascade ==
    [][/\ StoreAX = <<"a", sepr, "x", sepr>>
       /\ \A p \in Stores : \A q \in Stores \ {p} :
              (WriteVia(q) \/ \E t \in TablesOf(q) : ~Cascades(q, t, p) /\ DropVia(q, t))
              => SameView(p)
       /\ Drop(Root, TableA) =>
              \A k \in Keys : GetNext(Root, TableAB, k) = Get(Root, TableAB, k)]_vars

\* C21 witness: the root and two nested paths each hold a record after a Drop of the
\* root table "ab"
C21_Witness ==
    /\ handle = "open"
    /\ dropped # NoDrop /\ dropped.table = TableAB
    /\ Get(Root, TableA, <<"k">>).found
    /\ Get(StoreA, TableX, <<"k">>).found
    /\ Get(StoreAX, TableX, <<"k">>).found

\* C22 (as claimed): a table name with the separator given by a caller at the root is
\* rejected or escaped, so such a call reads nothing of a sub-store and a Set, CryptSet,
\* Unset or Drop with such a name changes nothing the sub-store reads.
C22_SeparatorRejected ==
    [][/\ \A k \in Keys :
              (\/ \E v \in Inputs : \E c \in BOOLEAN : set(Root, SepTable, k, v, c)
               \/ Unset(Root, SepTable, k)
               \/ Drop(Root, SepTable))
              => SameView(StoreA)
       /\ handle' = "open" => \A k \in Keys : ~GetNext(Root, SepTable, k).found]_vars

\* C23 (as claimed): Tables() lists a table if and only if it holds data, here for the
\* root table "ab" (a name that is no namespace): listed after its first write, not
\* listed once every key was removed.
C23_TablesHoldData ==
    handle = "open" =>
        \A l \in Tables(Root) : (TableAB \in ToSet(l)) <=> (HistKeys(TableAB) # {})

\* C24 (as claimed): a Drop on the persistent backend is one exclusive transaction: while
\* it runs no state shows some but not all of the tables it selected removed, and when
\* it returns no table of the dropped subtree exists that a Set created before.
C24_DropAtomic ==
    [][\A th \in Threads :
           /\ thr'[th].pc = "deleting" =>
                  (\/ thr'[th].listed \subseteq DOMAIN kv'
                   \/ thr'[th].listed \cap DOMAIN kv' = {})
           /\ (thr[th].pc = "deleting" /\ thr'[th].pc = "idle") =>
                  \A x \in DOMAIN kv' : ~Covers(thr[th].table, x)]_vars

\* C25 (as claimed): every Drop on the persistent backend returns without error, also
\* when a concurrent Drop has removed a table it selected.
C25_ConcurrentDropNoError ==
    \A th \in Threads : (thr[th].op = "Drop" /\ thr[th].pc = "idle") => thr[th].err = "nil"

\* what the whole method of the call t does to the map it found when it took the lock
Effect(t) ==
    CASE t.op \in {"Set", "CryptSet"} ->
             memStore_set(t.before, encoder, t.table, t.key, t.value, t.op = "CryptSet").kv
      [] t.op = "Unset" -> memStore_Unset(t.before, t.table, t.key).kv
      [] t.op = "Drop" -> memStore_Drop(t.before, t.table).kv
      [] t.op = "Close" -> memStore_Close(t.before).kv
      [] OTHER -> t.before

\* C26: the readers hold K.mutex shared and the writers hold it exclusively for their
\* whole access to the map: the map changes only under the exclusive lock, no other call
\* is inside its critical section while a mutation is inside its own, a mutation leaves
\* the map as the whole method applied to the map it found, and what a reader reads is
\* the map before or after every mutation, never one in between.
C26_LockDiscipline ==
    [][/\ \A th \in Threads :
              InCS(thr'[th]) =>
                  IF Mutates(thr'[th].op)
                      THEN /\ mutex'.writer = th
                           /\ mutex'.readers = {}
                           /\ \A o \in Threads \ {th} : ~InCS(thr'[o])
                      ELSE th \in mutex'.readers
       /\ kv' # kv => \E th \in Threads :
                          /\ InCS(thr[th]) /\ Mutates(thr[th].op)
                          /\ mutex.writer = th
       /\ \A th \in Threads :
              (thr[th].pc = "unlock" /\ thr'[th].pc = "idle" /\ Mutates(thr[th].op)) =>
                  kv = Effect(thr[th])
       /\ \A th \in Threads :
              (thr[th].pc = "cs" /\ thr'[th].pc = "unlock" /\ ~Mutates(thr[th].op)) =>
                  \A o \in Threads \ {th} :
                      (InCS(thr[o]) /\ Mutates(thr[o].op)) =>
                          kv \in {thr[o].before, Effect(thr[o])}]_vars

\* a Drop has deleted one of the two tables it removes while a reader and nobody else
\* stands before the lock
C26_Witness ==
    /\ backend = "mem"
    /\ \E th \in Threads : \E o \in Threads \ {th} :
           /\ thr[th].op = "Drop" /\ thr[th].pc = "deleting"
           /\ kv # thr[th].before /\ kv # Effect(thr[th])
           /\ thr[o].op = "Get" /\ thr[o].pc = "lock"

\* a goroutine outside every call holds nothing of the lock
HoldsNothing(th) == th \notin mutex.readers /\ mutex.writer # th

\* C27: every method of the memStore takes K.mutex at most once and releases it on every
\* return, the return of set with an encode error included, and under fair scheduling
\* every call returns.
C27_LockOnceAndReturns ==
    /\ [](\A th \in Threads :
              /\ thr[th].nlock <= 1
              /\ thr[th].pc = "idle" => HoldsNothing(th))
    /\ \A th \in Threads : (thr[th].pc # "idle") ~> (thr[th].pc = "idle")

\* set has returned an encode error, the lock is free and the table it created is there
C27_Witness ==
    /\ backend = "mem"
    /\ mutex = Unlocked
    /\ \E th \in Threads :
           /\ thr[th].pc = "idle" /\ thr[th].op = "Set" /\ thr[th].err # "nil"
           /\ \E o \in Threads \ {th} : thr[o].pc = "idle" /\ thr[o].op = "Get"

\* C28: a Table obtained by Table(t) from the root or from a sub-store behaves as the
\* store called with table t: Get, Keys and CountKeys return the same in every state,
\* Set, CryptSet, Unset and Drop return the same error and leave the same buckets, and a
\* record written through the Table is read through the store.
C28_FocusedTable ==
    [][/\ \A s \in LifeStores : \A t \in LifeTablesOf(s) :
              /\ \A k \in LifeKeys : focused_Get(Table(s, t), k) = Get(s, t, k)
              /\ focused_Keys(Table(s, t)) = K_Keys(kv, Delegated(s, t))
              /\ focused_CountKeys(Table(s, t)) = K_CountKeys(kv, Delegated(s, t))
       /\ (thr'[1].seq = nops' /\ nops' = nops + 1) =>
              LET c == thr'[1]
                  d == Delegated(c.pending[1], c.pending[2])
                  r == CASE c.op = "Table.Set" -> K_set(kv, encoder, d, c.key, c.value, FALSE)
                         [] c.op = "Table.CryptSet" ->
                                K_set(kv, encoder, d, c.key, c.value, TRUE)
                         [] c.op = "Table.Unset" -> K_Unset(kv, d, c.key)
                         [] OTHER -> K_Drop(kv, d)
              IN  /\ kv' = r.kv
                  /\ c.err = r.err
                  /\ (c.op \in {"Table.Set", "Table.CryptSet"} /\ r.err = "nil") =>
                         GetNext(c.pending[1], c.pending[2], c.key) = Found(c.value)]_vars

\* the last call was a Set through Table("x") of Sub("a"), and Sub("a").Get("x", ...)
\* finds its value
C28_Witness ==
    /\ thr[1].seq = nops
    /\ thr[1].op = "Table.Set"
    /\ thr[1].pending = <<StoreA, TableX>>
    /\ thr[1].err = "nil"
    /\ Get(StoreA, TableX, thr[1].key) = Found(thr[1].value)
    /\ focused_CountKeys(Table(StoreA, TableX)).count = 1

\* C29: on both backends Unset(t,k), on the root or through a sub-store, removes exactly
\* the record k of the table the backend is called with: afterwards Get(t,k) finds
\* nothing, the same tables exist, every other record holds the bytes it held, and when
\* the table or the key is absent nothing changes and no table is created.
C29_UnsetExactlyOne ==
    [][(dropped' = NoDrop /\ nops' = nops + 1 /\ DOMAIN hist' \subseteq DOMAIN hist) =>
       \A s \in Stores : \A t \in TablesOf(s) : \A k \in Keys :
           Unset(s, t, k) =>
               LET d == Delegated(s, t)
               IN  /\ GetNext(s, t, k) = NotFound
                   /\ DOMAIN kv' = DOMAIN kv
                   /\ \A x \in DOMAIN kv :
                          /\ DOMAIN kv'[x] = (DOMAIN kv[x]) \ (IF x = d THEN {k} ELSE {})
                          /\ \A y \in DOMAIN kv'[x] : kv'[x][y] = kv[x][y]
                   /\ Absent(d, k) => kv' = kv]_vars

\* the root table "ab" exists and holds no key, which only an Unset of its last key
\* leaves behind, while the root table "a" and a table of Sub("a") hold their records
C29_Witness ==
    /\ handle = "open"
    /\ TableAB \in DOMAIN kv /\ DOMAIN kv[TableAB] = {}
    /\ TableA \in DOMAIN kv /\ DOMAIN kv[TableA] # {}
    /\ Delegated(StoreA, TableX) \in DOMAIN kv
    /\ DOMAIN kv[Delegated(StoreA, TableX)] # {}

\* the names below prefix s, stripped of it, that contain a further separator
Deeper(db, s) ==
    {TrimPrefix(x, s) : x \in {y \in (DOMAIN db) \ {KVLite} :
                                  HasPrefix(y, s) /\ ContainsRune(TrimPrefix(y, s), sepr)}}

\* in every state the full listing of a sub-store holds exactly the stripped names with
\* a further separator, and the depth-limited one their first segments, each once
C30_ListingShape ==
    \A s \in SubStores :
        /\ \A l \in Buckets(s, FALSE) : ToSet(l) = Deeper(kv, s)
        /\ \A l \in Buckets(s, TRUE) :
               /\ ToSet(l) = {FirstSegment(n) : n \in Deeper(kv, s)}
               /\ Cardinality(ToSet(l)) = Len(l)

\* the sub-namespaces the listing of store s reports
Listed(s, limit_depth) == {ToSet(l) : l \in Buckets(s, limit_depth)}

\* C30 (as claimed): the bucket listing of a router with prefix p returns exactly the
\* stripped names that contain a further separator, depth-limited each first segment
\* once, and a table written as a direct child of the router adds no sub-namespace to
\* the listing.
C30_SubNamespaceListing ==
    [][handle' = "open" =>
           /\ C30_ListingShape'
           /\ \A s \in SubStores : \A t \in TablesOf(s) : \A k \in LifeKeys :
                  \A v \in Inputs : \A c \in BOOLEAN :
                      set(s, t, k, v, c) =>
                          \A d \in BOOLEAN : Listed(s, d)' = Listed(s, d)]_vars

\* the master secret of the lock-state record of the file, 0 when it has none
Secret(db) == IF HasLockState(db) THEN boltDB_Get(db, 0, KVLite, XKey, TRUE).out[2] ELSE 0

\* the records of the buckets db whose flag byte is 1
Flagged(db) == {x \in {<<t, k>> : t \in DOMAIN db, k \in LifeKeys} :
                   x[2] \in DOMAIN db[x[1]] /\ db[x[1]][x[2]][1] = 1}

\* C31: in every Store that Open returned, at every state of the handle, the payload of
\* each record with flag byte 1 decrypts under the handle's encoder, and a step that
\* changes the master secret of the file leaves no record flagged encrypted.
C31_EncoderMatches ==
    [][/\ handle' = "open" =>
              \A x \in Flagged(kv') : decrypt(encoder', kv'[x[1]][x[2]][2])[1] = "gob"
       /\ (Secret(kv) # 0 /\ Secret(kv') # Secret(kv)) => Flagged(kv') = {}]_vars

\* a Store opened after a CryptReset of the file holds a record encrypted since, in a
\* table of the root and in a table of Sub("a")
C31_Witness ==
    /\ handle = "open"
    /\ Marker(kv)
    /\ Secret(kv) = encoder
    /\ <<TableA, <<"k">>>> \in Flagged(kv)
    /\ <<Delegated(StoreA, TableX), <<"k">>>> \in Flagged(kv)

\* C32 (as claimed): when Open or CryptReset has returned an error other than ErrLocked,
\* no Store was returned and the handle it opened is closed: nothing holds the file, so
\* the next Open is not answered with ErrLocked.
C32_NoHandleLeft ==
    (ret.op \in {"Open", "CryptReset"} /\ ret.err \notin {"nil", "running", "crash", "ErrLocked"})
        => (handle = "none" /\ nheld = 0)

\* C33 (as claimed): a Set or CryptSet that returns the error of a value that cannot be
\* serialized leaves Tables(), the keys and the count of every table and every stored
\* value as they were, on both backends: no empty table is created.
C33_FailedWriteNoEffect ==
    [][\A s \in LifeStores : \A t \in LifeTablesOf(s) : \A k \in Keys : \A c \in BOOLEAN :
           set(s, t, k, BadValue, c) =>
               /\ K_set(kv, encoder, Delegated(s, t), k, BadValue, c).err # "nil"
               /\ TablesIn(kv', Root) = TablesIn(kv, Root)
               /\ \A d \in (DOMAIN kv) \cup (DOMAIN kv') :
                      /\ K_Keys(kv', d) = K_Keys(kv, d)
                      /\ K_CountKeys(kv', d) = K_CountKeys(kv, d)
               /\ kv' = kv]_vars

\* C34 (as claimed): a Drop on the persistent backend returns an error if the deletion
\* of any table it selected failed, so a Drop that returns no error has removed every
\* table it selected: a failure in one turn of the loop is still the error when the
\* loop is left.
C34_DropReportsFailure ==
    [][\A th \in Threads :
           (thr[th].pc = "deleting" /\ thr'[th].pc = "idle") =>
               LET r == DeleteBucket(kv, Head(thr[th].pending))
               IN  (thr[th].err # "nil" \/ r.err # "nil") => thr'[th].err # "nil"]_vars

\* C35: Get, Keys, CountKeys, Tables and the bucket listing, on tables and keys that
\* exist or not, on both backends, on the root and through a sub-store, leave the set of
\* tables, the keys of every table and every stored record as they were.
C35_ReadsNoEffect ==
    [][(thr'[1].seq = nops' /\ nops' = nops + 1 /\ thr'[1].op \in ReadOps) =>
           /\ DOMAIN kv' = DOMAIN kv
           /\ \A t \in DOMAIN kv :
                  /\ DOMAIN kv'[t] = DOMAIN kv[t]
                  /\ \A k \in DOMAIN kv[t] : kv'[t][k] = kv[t][k]]_vars

\* the last call was a Get through Sub("a") on a table that does not exist: it found
\* nothing and the table still does not exist, while a root table holds a record
C35_Witness ==
    /\ thr[1].seq = nops
    /\ thr[1].op = "Get"
    /\ thr[1].pending = <<StoreA, TableX>>
    /\ ~thr[1].out.found
    /\ Delegated(StoreA, TableX) \notin DOMAIN kv
    /\ TableA \in DOMAIN kv /\ DOMAIN kv[TableA] # {}

\* C36: Close called on a sub-store closes the backend the root and every sub-store
\* share: on the in-memory backend no table of any namespace is left, the tables written
\* through the root included, and on the persistent backend the file is released.
C36_SubStoreCloseShared ==
    [][(thr'[1].op = "Close" /\ closed' = closed + 1 /\ thr'[1].pending[1] \in SubStores) =>
           IF backend = "mem"
               THEN /\ DOMAIN kv' = {}
                    /\ \A l \in TablesIn(kv', Root) : l = <<>>
                    /\ \A s \in Stores : \A t \in Names : \A k \in LifeKeys :
                           GetNext(s, t, k) = NotFound
               ELSE handle' = "none" /\ nheld' = 0]_vars

\* Close was called on Sub("a").Sub("x") of an in-memory store that held a table written
\* through the root and one written through Sub("a"): nothing is left
C36_Witness ==
    /\ backend = "mem"
    /\ thr[1].op = "Close"
    /\ thr[1].pending[1] = StoreAX
    /\ closed = 1
    /\ TableA \in DOMAIN thr[1].before
    /\ Delegated(StoreA, TableX) \in DOMAIN thr[1].before
    /\ kv = EmptyDB

====
